---- MODULE Spec2Model ----
(***************************************************************************)
(* CreatorLang VFX engine (src/vfx_engine.py): the particle simulation and *)
(* the effect-compositing engine, as a state machine.                      *)
(*                                                                         *)
(* Quantities are the program's own numbers restricted to integers: times  *)
(* (dt, lifetimes, time_since_emit) in seconds, positions in pixels,       *)
(* velocities in pixels per second.  Only the emission rate is a fraction  *)
(* num/den particles per second, so that emission intervals longer than    *)
(* one dt step exist; the comparison  time_since_emit >= 1.0 / rate  is    *)
(* evaluated exactly as  time_since_emit * num >= den.                     *)
(***************************************************************************)
EXTENDS Integers, Sequences, FiniteSets, TLC

VARIABLES
    systems,           \* every ParticleSystem object constructed so far; a handle is its index
    particle_systems,  \* VFXEngine.particle_systems: handles, in registration order
    active_effects,    \* VFXEngine.active_effects: pending effect requests
    prev_frame,        \* VFXEngine.prev_frame: None or the last composited frame
    calls,             \* history: number of render and of add_effect calls made
    created,           \* history: one entry per particle ever created, indexed by particle id
    stats,             \* history: per handle, what the update calls on it added up to
    last               \* history: the call that produced this state and what it returned

vars == <<systems, particle_systems, active_effects, prev_frame, calls, created, stats, last>>

\* the state of the VFXEngine object
engine == <<particle_systems, active_effects, prev_frame, calls>>

(***************************************************************************)
(* Bounds of the model.                                                    *)
(***************************************************************************)
MaxEmitted == 2   \* particles created over a whole run
MaxTime == 3      \* seconds of update(dt) calls made on one system
MaxSystems == 1   \* ParticleSystem objects registered with one engine over a run
MaxEffects == 2   \* effect requests enqueued over a run
MaxSteadySteps == 5 \* update calls of a run made with one fixed dt
MaxRenders == 2   \* VFXEngine.render calls over a run
Width == 3        \* frame.shape[1]
Height == 2       \* frame.shape[0]

\* None as the error of a call that returned
None == "None"

\* None where a frame is expected (prev_frame before the first render)
NoFrame == <<>>

\* the dt values passed to update, and the counts passed to emit
Dts == 0..2
Counts == 0..2

\* the fixed per-frame dt of a timeline driver (dt = 1.0 / fps)
FrameDts == {1}

(***************************************************************************)
(* Python helpers.                                                         *)
(***************************************************************************)
\* dict.get(key, default)
Get(d, k, default) == IF k \in DOMAIN d THEN d[k] ELSE default

\* random.uniform(a, b) with a <= b, sampled at its two extremes (one value when a = b)
Uniform(a, b) == {a, b}

Abs(n) == IF n < 0 THEN -n ELSE n

\* a rate as a fraction of particles per second
Rate(n, d) == [num |-> n, den |-> d]

(***************************************************************************)
(* Configuration records the callers pass to ParticleSystem(config).       *)
(* Keys may be absent, as in the Python dicts.                             *)
(***************************************************************************)
\* shaped like FireEffect.create_fire_config: continuous emission, spawn spread
FireConfig ==
    [position |-> <<1, 1>>,
     rate |-> Rate(2, 3),
     particle |-> [velocity |-> <<0, -1>>,
                   acceleration |-> <<0, -1>>,
                   lifetime |-> 2,
                   color |-> <<255, 100, 0, 255>>,
                   size |-> 1,
                   spread |-> 1]]

\* shaped like ExplosionEffect.create_explosion_config: rate 0, burst only
ExplosionConfig ==
    [position |-> <<1, 0>>,
     rate |-> Rate(0, 1),
     particle |-> [velocity |-> <<0, 0>>,
                   acceleration |-> <<0, 1>>,
                   lifetime |-> 2,
                   lifetime_random |-> 1,
                   color |-> <<255, 255, 0, 255>>,
                   size |-> 1]]

\* a template whose lifetime half-range reaches down to a lifetime of 0
SparkConfig ==
    [position |-> <<2, 1>>,
     rate |-> Rate(1, 1),
     particle |-> [velocity |-> <<1, 0>>,
                   lifetime |-> 1,
                   lifetime_random |-> 1,
                   color |-> <<0, 0, 255, 128>>,
                   size |-> 0]]

\* a template whose lifetime half-range exceeds the base lifetime
EmberConfig ==
    [position |-> <<0, 1>>,
     rate |-> Rate(1, 1),
     particle |-> [velocity |-> <<0, 0>>,
                   lifetime |-> 1,
                   lifetime_random |-> 2,
                   color |-> <<0, 128, 255, 255>>,
                   size |-> 0]]

\* shaped like the dust trail of examples/lion_hunt_cinematic.py: random velocity and size
DustConfig ==
    [position |-> <<2, 0>>,
     rate |-> Rate(1, 3),
     particle |-> [velocity |-> <<-1, 0>>,
                   velocity_random |-> <<1, 0>>,
                   acceleration |-> <<0, 1>>,
                   lifetime |-> 3,
                   color |-> <<180, 160, 140, 120>>,
                   size |-> 1,
                   size_random |-> 1,
                   angular_velocity |-> 90]]

\* the empty dict: every field takes its default
EmptyConfig == [k \in {} |-> 0]

Configs == {FireConfig, ExplosionConfig, SparkConfig, EmberConfig, DustConfig, EmptyConfig}

\* positions a caller moves an emitter to through the handle
EmitterPositions == {<<0, 0>>}

(***************************************************************************)
(* ParticleSystem                                                          *)
(***************************************************************************)
\* ParticleSystem.__init__
ParticleSystem(config) ==
    [particles |-> <<>>,
     config |-> config,
     emitter_pos |-> Get(config, "position", <<0, 0>>),
     emission_rate |-> Get(config, "rate", Rate(50, 1)),
     particle_config |-> Get(config, "particle", [k \in {} |-> 0]),
     time_since_emit |-> 0]

\* the values the random.uniform calls of one _create_particle call can return
Draws(sys) ==
    LET pc == sys.particle_config
        spread == Get(pc, "spread", 0)
        vel_random == Get(pc, "velocity_random", <<0, 0>>)
        lifetime_random == Get(pc, "lifetime_random", 0)
        size_random == Get(pc, "size_random", 0)
    IN  [px : Uniform(-spread, spread),
         py : Uniform(-spread, spread),
         vx : Uniform(-vel_random[1], vel_random[1]),
         vy : Uniform(-vel_random[2], vel_random[2]),
         lifetime : Uniform(-lifetime_random, lifetime_random),
         size : Uniform(-size_random, size_random),
         rotation : {0}]

\* update(dt) emits: the rate is positive and the accumulator reaches 1 / rate
Emits(sys, dt) ==
    /\ sys.emission_rate.num > 0
    /\ (sys.time_since_emit + dt) * sys.emission_rate.num >= sys.emission_rate.den

\* the values the random calls of one update(dt) call can return: random is
\* called only when the call emits
UpdateDraws(sys, dt) ==
    IF Emits(sys, dt) THEN Draws(sys)
    ELSE {[px |-> 0, py |-> 0, vx |-> 0, vy |-> 0, lifetime |-> 0, size |-> 0,
           rotation |-> 0]}

\* the values the random calls of one emit_radial_burst iteration can return
BurstDraws(sys) == {[create |-> d, speed |-> v] : d \in Draws(sys), v \in Uniform(50, 200)}

\* _create_particle spawning around the position of the configuration
_create_particle_at_config(sys, rnd, id) ==
    LET pc == sys.particle_config
        vel_base == Get(pc, "velocity", <<0, -50>>)
        lifetime == Get(pc, "lifetime", 2) + rnd.lifetime
        origin == Get(sys.config, "position", <<0, 0>>)
    IN  [id |-> id,
         position |-> <<origin[1] + rnd.px, origin[2] + rnd.py>>,
         velocity |-> <<vel_base[1] + rnd.vx, vel_base[2] + rnd.vy>>,
         acceleration |-> Get(pc, "acceleration", <<0, 0>>),
         lifetime |-> lifetime,
         max_lifetime |-> lifetime,
         color |-> Get(pc, "color", <<255, 255, 255, 255>>),
         size |-> Get(pc, "size", 5) + rnd.size,
         rotation |-> rnd.rotation,
         angular_velocity |-> Get(pc, "angular_velocity", 0)]

\* _create_particle with max_lifetime set to the template's base lifetime
_create_particle_base_max(sys, rnd, id) ==
    LET pc == sys.particle_config
        vel_base == Get(pc, "velocity", <<0, -50>>)
        lifetime == Get(pc, "lifetime", 2) + rnd.lifetime
    IN  [id |-> id,
         position |-> <<sys.emitter_pos[1] + rnd.px, sys.emitter_pos[2] + rnd.py>>,
         velocity |-> <<vel_base[1] + rnd.vx, vel_base[2] + rnd.vy>>,
         acceleration |-> Get(pc, "acceleration", <<0, 0>>),
         lifetime |-> lifetime,
         max_lifetime |-> Get(pc, "lifetime", 2),
         color |-> Get(pc, "color", <<255, 255, 255, 255>>),
         size |-> Get(pc, "size", 5) + rnd.size,
         rotation |-> rnd.rotation,
         angular_velocity |-> Get(pc, "angular_velocity", 0)]

\* _create_particle whose default color is transparent black
_create_particle_black_default(sys, rnd, id) ==
    LET pc == sys.particle_config
        vel_base == Get(pc, "velocity", <<0, -50>>)
        lifetime == Get(pc, "lifetime", 2) + rnd.lifetime
    IN  [id |-> id,
         position |-> <<sys.emitter_pos[1] + rnd.px, sys.emitter_pos[2] + rnd.py>>,
         velocity |-> <<vel_base[1] + rnd.vx, vel_base[2] + rnd.vy>>,
         acceleration |-> Get(pc, "acceleration", <<0, 0>>),
         lifetime |-> lifetime,
         max_lifetime |-> lifetime,
         color |-> Get(pc, "color", <<0, 0, 0, 0>>),
         size |-> Get(pc, "size", 5) + rnd.size,
         rotation |-> rnd.rotation,
         angular_velocity |-> Get(pc, "angular_velocity", 0)]

\* ParticleSystem._create_particle; rnd holds what the random calls returned
_create_particle(sys, rnd, id) ==
    LET pc == sys.particle_config
        vel_base == Get(pc, "velocity", <<0, -50>>)
        lifetime == Get(pc, "lifetime", 2) + rnd.lifetime
    IN  [id |-> id,
         position |-> <<sys.emitter_pos[1] + rnd.px, sys.emitter_pos[2] + rnd.py>>,
         velocity |-> <<vel_base[1] + rnd.vx, vel_base[2] + rnd.vy>>,
         acceleration |-> Get(pc, "acceleration", <<0, 0>>),
         lifetime |-> lifetime,
         max_lifetime |-> lifetime,
         color |-> Get(pc, "color", <<255, 255, 255, 255>>),
         size |-> Get(pc, "size", 5) + rnd.size,
         rotation |-> rnd.rotation,
         angular_velocity |-> Get(pc, "angular_velocity", 0)]

\* emit with the new particle put at the front of the list
RECURSIVE emit_prepending(_, _, _)
emit_prepending(sys, rnds, id) ==
    IF rnds = <<>> THEN sys
    ELSE emit_prepending(
             [sys EXCEPT !.particles = <<_create_particle(sys, Head(rnds), id)>> \o @],
             Tail(rnds), id + 1)

\* ParticleSystem.emit: one _create_particle and one append per element of rnds
RECURSIVE emit(_, _, _)
emit(sys, rnds, id) ==
    IF rnds = <<>> THEN sys
    ELSE emit([sys EXCEPT !.particles = Append(@, _create_particle(sys, Head(rnds), id))],
              Tail(rnds), id + 1)

\* the loop body with the lifetime counted up instead of down
Integrate_adding(p, dt) ==
    [p EXCEPT !.position = <<p.position[1] + p.velocity[1] * dt,
                             p.position[2] + p.velocity[2] * dt>>,
              !.velocity = <<p.velocity[1] + p.acceleration[1] * dt,
                             p.velocity[2] + p.acceleration[2] * dt>>,
              !.rotation = @ + p.angular_velocity * dt,
              !.lifetime = @ + dt]

\* the body of update's loop over the particles
Integrate(p, dt) ==
    [p EXCEPT !.position = <<p.position[1] + p.velocity[1] * dt,
                             p.position[2] + p.velocity[2] * dt>>,
              !.velocity = <<p.velocity[1] + p.acceleration[1] * dt,
                             p.velocity[2] + p.acceleration[2] * dt>>,
              !.rotation = @ + p.angular_velocity * dt,
              !.lifetime = @ - dt]

\* update without the filter: expired particles stay in the list
RemoveDead_keeping_all(ps) == ps

\* the filter with p.lifetime >= 0
RECURSIVE RemoveDead_keeping_zero(_)
RemoveDead_keeping_zero(ps) ==
    IF ps = <<>> THEN <<>>
    ELSE IF Head(ps).lifetime >= 0 THEN <<Head(ps)>> \o RemoveDead_keeping_zero(Tail(ps))
         ELSE RemoveDead_keeping_zero(Tail(ps))

\* [p for p in particles if p.lifetime > 0]
RECURSIVE RemoveDead(_)
RemoveDead(ps) ==
    IF ps = <<>> THEN <<>>
    ELSE IF Head(ps).lifetime > 0 THEN <<Head(ps)>> \o RemoveDead(Tail(ps))
         ELSE RemoveDead(Tail(ps))

\* the test with > in place of >=
EmissionDue_strict(t, rate) == t * rate.num > rate.den

\* time_since_emit >= 1.0 / emission_rate, for a rate > 0
EmissionDue(t, rate) == t * rate.num >= rate.den

\* update that integrates and expires the live particles before it emits
update_emitting_last(sys, dt, rnd, id) ==
    LET s1 == [sys EXCEPT !.time_since_emit = @ + dt]
    IN  IF sys.emission_rate.num = 0
        THEN [sys |-> s1, error |-> "ZeroDivisionError", emitted |-> 0]
        ELSE LET due == EmissionDue(s1.time_since_emit, sys.emission_rate)
                 moved == [i \in 1..Len(s1.particles) |-> Integrate(s1.particles[i], dt)]
                 s2 == [s1 EXCEPT !.particles = RemoveDead(moved)]
             IN  [sys |-> IF due THEN [emit(s2, <<rnd>>, id) EXCEPT !.time_since_emit = 0]
                          ELSE s2,
                  error |-> None,
                  emitted |-> IF due THEN 1 ELSE 0]

\* update carrying the time beyond one emission interval over to the next call
update_keeping_remainder(sys, dt, rnd, id) ==
    LET s1 == [sys EXCEPT !.time_since_emit = @ + dt]
    IN  IF sys.emission_rate.num = 0
        THEN [sys |-> s1, error |-> "ZeroDivisionError", emitted |-> 0]
        ELSE LET due == EmissionDue(s1.time_since_emit, sys.emission_rate)
                 s2 == IF due
                       THEN [emit(s1, <<rnd>>, id) EXCEPT
                               !.time_since_emit =
                                   @ - (sys.emission_rate.den \div sys.emission_rate.num)]
                       ELSE s1
                 moved == [i \in 1..Len(s2.particles) |-> Integrate(s2.particles[i], dt)]
             IN  [sys |-> [s2 EXCEPT !.particles = RemoveDead(moved)],
                  error |-> None,
                  emitted |-> IF due THEN 1 ELSE 0]

\* ParticleSystem.update.  1.0 / 0 raises ZeroDivisionError after the
\* accumulator has been advanced and before anything else is done.
update(sys, dt, rnd, id) ==
    LET s1 == [sys EXCEPT !.time_since_emit = @ + dt]
    IN  IF sys.emission_rate.num = 0
        THEN [sys |-> s1, error |-> "ZeroDivisionError", emitted |-> 0]
        ELSE LET due == EmissionDue(s1.time_since_emit, sys.emission_rate)
                 s2 == IF due THEN [emit(s1, <<rnd>>, id) EXCEPT !.time_since_emit = 0]
                       ELSE s1
                 moved == [i \in 1..Len(s2.particles) |-> Integrate(s2.particles[i], dt)]
             IN  [sys |-> [s2 EXCEPT !.particles = RemoveDead(moved)],
                  error |-> None,
                  emitted |-> IF due THEN 1 ELSE 0]

\* int(n / d): Python's true division followed by truncation toward zero
IntDiv(n, d) ==
    IF (n >= 0) = (d > 0) THEN Abs(n) \div Abs(d) ELSE -(Abs(n) \div Abs(d))

(***************************************************************************)
(* Frames: frame[y][x] is a pixel of three channels, y in 0..h-1 and       *)
(* x in 0..w-1, as numpy's frame[y, x].                                    *)
(***************************************************************************)
Zeros(h, w) == [y \in 0..(h - 1) |-> [x \in 0..(w - 1) |-> <<0, 0, 0>>]]

\* frame.shape[0], frame.shape[1]
Rows(frame) == Cardinality(DOMAIN frame)
Cols(frame) == Cardinality(DOMAIN frame[0])

\* cv2.circle(frame, pos, radius, color, -1): the filled disc, clipped to the frame
Circle(frame, pos, radius, color) ==
    [y \in DOMAIN frame |->
        [x \in DOMAIN frame[y] |->
            IF (x - pos[1]) * (x - pos[1]) + (y - pos[2]) * (y - pos[2]) <= radius * radius
            THEN color ELSE frame[y][x]]]

\* the loop body without the test of the position against the frame
RenderParticle_unclipped(frame, p) ==
    IF p.max_lifetime = 0
    THEN [frame |-> frame, drawn |-> <<>>, error |-> "ZeroDivisionError"]
    ELSE LET color_with_alpha == <<p.color[1], p.color[2], p.color[3],
                                   IntDiv(p.color[4] * p.lifetime, p.max_lifetime)>>
             pos == <<p.position[1], p.position[2]>>
             rgb == SubSeq(color_with_alpha, 1, 3)
         IN  [frame |-> Circle(frame, pos, p.size, rgb),
              drawn |-> <<[id |-> p.id, pos |-> pos, radius |-> p.size,
                           color |-> rgb, alpha |-> color_with_alpha[4],
                           lifetime |-> p.lifetime]>>,
              error |-> None]

\* the loop body scaling the three color channels by the fade ratio as well
RenderParticle_fading_color(frame, p) ==
    IF p.max_lifetime = 0
    THEN [frame |-> frame, drawn |-> <<>>, error |-> "ZeroDivisionError"]
    ELSE LET color_with_alpha == [c \in 1..4 |-> IntDiv(p.color[c] * p.lifetime, p.max_lifetime)]
             pos == <<p.position[1], p.position[2]>>
             rgb == SubSeq(color_with_alpha, 1, 3)
         IN  IF 0 <= pos[1] /\ pos[1] < Cols(frame) /\ 0 <= pos[2] /\ pos[2] < Rows(frame)
             THEN [frame |-> Circle(frame, pos, p.size, rgb),
                   drawn |-> <<[id |-> p.id, pos |-> pos, radius |-> p.size,
                                color |-> rgb, alpha |-> color_with_alpha[4],
                                lifetime |-> p.lifetime]>>,
                   error |-> None]
             ELSE [frame |-> frame, drawn |-> <<>>, error |-> None]

\* the body of render's loop for one particle: the frame after it, what was
\* drawn, and the error raised (alpha divides by max_lifetime)
RenderParticle(frame, p) ==
    IF p.max_lifetime = 0
    THEN [frame |-> frame, drawn |-> <<>>, error |-> "ZeroDivisionError"]
    ELSE LET color_with_alpha == <<p.color[1], p.color[2], p.color[3],
                                   IntDiv(p.color[4] * p.lifetime, p.max_lifetime)>>
             pos == <<p.position[1], p.position[2]>>
             rgb == SubSeq(color_with_alpha, 1, 3)
         IN  IF 0 <= pos[1] /\ pos[1] < Cols(frame) /\ 0 <= pos[2] /\ pos[2] < Rows(frame)
             THEN [frame |-> Circle(frame, pos, p.size, rgb),
                   drawn |-> <<[id |-> p.id, pos |-> pos, radius |-> p.size,
                                color |-> rgb, alpha |-> color_with_alpha[4],
                                lifetime |-> p.lifetime]>>,
                   error |-> None]
             ELSE [frame |-> frame, drawn |-> <<>>, error |-> None]

\* ParticleSystem.render: draws the particles onto frame in list order; an
\* error leaves the frame as drawn so far
RECURSIVE render(_, _)
render(particles, frame) ==
    IF particles = <<>> THEN [frame |-> frame, drawn |-> <<>>, error |-> None]
    ELSE LET one == RenderParticle(frame, Head(particles))
         IN  IF one.error # None THEN one
             ELSE LET rest == render(Tail(particles), one.frame)
                  IN  [frame |-> rest.frame, drawn |-> one.drawn \o rest.drawn,
                       error |-> rest.error]

(***************************************************************************)
(* EffectProcessor.  A float parameter (intensity, strength) is held in    *)
(* hundredths: 50 stands for 0.5.  The cv2 calls are modelled at the pixel  *)
(* level: addWeighted rounds and saturates to 0..255, warpAffine fills     *)
(* with 0, GaussianBlur is the 3x3 binomial kernel with reflected borders  *)
(* for every kernel size above 1.                                          *)
(***************************************************************************)
Min(a, b) == IF a < b THEN a ELSE b
Max(a, b) == IF a > b THEN a ELSE b

\* n mod w for any integer n
Mod(n, w) == ((n % w) + w) % w

\* a cast to uchar that keeps the low eight bits
Saturate_wrapping(v) == Mod(v, 256)

\* saturate_cast<uchar>
Saturate(v) == Max(0, Min(255, v))

\* cvRound(n / d) for d > 0: to the nearest integer, a half to the even one
RoundDiv(n, d) ==
    LET q == n \div d
        r == n - q * d
    IN  IF 2 * r < d THEN q
        ELSE IF 2 * r > d THEN q + 1
        ELSE IF q % 2 = 0 THEN q ELSE q + 1

\* cv2.addWeighted(a, an/den, b, bn/den, 0)
AddWeighted(a, an, b, bn, den) ==
    [y \in DOMAIN a |->
        [x \in DOMAIN a[y] |->
            [c \in 1..3 |-> Saturate(RoundDiv(a[y][x][c] * an + b[y][x][c] * bn, den))]]]

\* BORDER_REFLECT_101 for an index one step outside 0..n-1
Reflect(i, n) ==
    IF n = 1 THEN 0
    ELSE IF i < 0 THEN -i
    ELSE IF i >= n THEN 2 * (n - 1) - i
    ELSE i

\* cv2.GaussianBlur(frame, (ksize, ksize), 0)
GaussianBlur(frame, ksize) ==
    IF ksize = 1 THEN frame
    ELSE LET h == Rows(frame)
             w == Cols(frame)
             k == [d \in -1..1 |-> IF d = 0 THEN 2 ELSE 1]
             Sum(y, x, c) ==
                 LET row(dy) == frame[Reflect(y + dy, h)]
                     at(dy, dx) == k[dy] * k[dx] * row(dy)[Reflect(x + dx, w)][c]
                 IN  at(-1, -1) + at(-1, 0) + at(-1, 1)
                     + at(0, -1) + at(0, 0) + at(0, 1)
                     + at(1, -1) + at(1, 0) + at(1, 1)
         IN  [y \in DOMAIN frame |->
                [x \in DOMAIN frame[y] |->
                    [c \in 1..3 |-> RoundDiv(Sum(y, x, c), 16)]]]

\* EffectProcessor.apply_glow
apply_glow(frame, intensity, radius) ==
    LET odd == IF radius % 2 = 0 THEN radius + 1 ELSE radius
        blurred == GaussianBlur(frame, odd)
    IN  AddWeighted(frame, 100, blurred, intensity, 100)

\* EffectProcessor.apply_motion_blur
apply_motion_blur(frame, prev, strength) ==
    AddWeighted(frame, 100 - strength, prev, strength, 100)

\* a translation that brings the pixels pushed out back in at the opposite edge
WarpTranslate_wrapping(frame, dx, dy) ==
    [y \in DOMAIN frame |->
        [x \in DOMAIN frame[y] |->
            frame[Mod(y - dy, Rows(frame))][Mod(x - dx, Cols(frame))]]]

\* cv2.warpAffine(frame, [[1, 0, dx], [0, 1, dy]], (w, h))
WarpTranslate(frame, dx, dy) ==
    [y \in DOMAIN frame |->
        [x \in DOMAIN frame[y] |->
            IF (y - dy) \in DOMAIN frame /\ (x - dx) \in DOMAIN frame[y]
            THEN frame[y - dy][x - dx] ELSE <<0, 0, 0>>]]

\* EffectProcessor.apply_shake; dx and dy are what random.randint returned
apply_shake(frame, dx, dy) == WarpTranslate(frame, dx, dy)

\* np.roll(frame[:, :, c], shift, axis=1) written into channel c of result
RollChannel(result, frame, c, shift) ==
    [y \in DOMAIN result |->
        [x \in DOMAIN result[y] |->
            [result[y][x] EXCEPT ![c] = frame[y][Mod(x - shift, Cols(frame))][c]]]]

\* result[y0:y0+height] = np.roll(result[y0:y0+height], shift, axis=1)
RollBand(result, y0, height, shift) ==
    [y \in DOMAIN result |->
        IF y0 <= y /\ y < y0 + height
        THEN [x \in DOMAIN result[y] |-> result[y][Mod(x - shift, Cols(result))]]
        ELSE result[y]]

\* the outcomes of apply_glitch's random calls on a frame of h rows: "skip"
\* when random.random() >= intensity, else the band drawn; random.randint(0,
\* h - 50) raises ValueError when h < 50
GlitchDraws(h, intensity) ==
    (IF intensity < 100 THEN {[band |-> "skip"]} ELSE {})
    \cup (IF intensity <= 0 THEN {}
          ELSE IF h - 50 < 0 THEN {[band |-> "ValueError"]}
          ELSE [band : {"roll"}, y : Uniform(0, h - 50), height : Uniform(5, 50),
                shift_amount : Uniform(-20, 20)])

\* EffectProcessor.apply_glitch
apply_glitch(frame, intensity, rnd) ==
    LET shift == IntDiv(intensity * 10, 100)
        shifted == RollChannel(RollChannel(frame, frame, 1, shift), frame, 3, -shift)
    IN  CASE rnd.band = "skip" -> [frame |-> shifted, error |-> None]
          [] rnd.band = "ValueError" -> [frame |-> frame, error |-> "ValueError"]
          [] OTHER -> [frame |-> RollBand(shifted, rnd.y, rnd.height, rnd.shift_amount),
                       error |-> None]

\* the loop of apply_radial_blur from iteration i on; result is an array, so
\* the first test is false and only makes each iteration evaluate its result
\* before the next one starts
RECURSIVE RadialBlend(_, _, _, _)
RadialBlend(result, blurred, i, strength) ==
    IF result = NoFrame \/ i >= IntDiv(strength * 10, 100) THEN result
    ELSE RadialBlend(AddWeighted(result, strength - (i + 1), blurred, i + 1, strength),
                     blurred, i + 1, strength)

\* apply_radial_blur keeping the input where the distance mask is 0: the
\* pixels within 0.3 of the largest distance from center
apply_radial_blur_masked(frame, center, strength) ==
    LET blended == RadialBlend(frame, GaussianBlur(frame, 15), 0, strength)
        DistSq(x, y) == (x - center[1]) * (x - center[1]) + (y - center[2]) * (y - center[2])
        far == CHOOSE p \in (DOMAIN frame) \X (DOMAIN frame[0]) :
                   \A q \in (DOMAIN frame) \X (DOMAIN frame[0]) :
                       DistSq(q[2], q[1]) <= DistSq(p[2], p[1])
    IN  [y \in DOMAIN frame |->
            [x \in DOMAIN frame[y] |->
                IF 100 * DistSq(x, y) > 9 * DistSq(far[2], far[1])
                THEN blended[y][x] ELSE frame[y][x]]]

\* EffectProcessor.apply_radial_blur: the distance mask built from center is
\* computed and not used
apply_radial_blur(frame, center, strength) ==
    RadialBlend(frame, GaussianBlur(frame, 15), 0, strength)

\* (cos(angle), sin(angle)) for angle = (i / count) * 2 * pi, count dividing 4
Direction(i, count) ==
    LET quarter == (4 * i) \div count
    IN  CASE quarter = 0 -> <<1, 0>>
          [] quarter = 1 -> <<0, 1>>
          [] quarter = 2 -> <<-1, 0>>
          [] OTHER -> <<0, -1>>

\* ExplosionEffect.emit_radial_burst: rnds[i + 1] holds what the random calls
\* of iteration i returned
RECURSIVE emit_radial_burst(_, _, _, _, _)
emit_radial_burst(sys, count, i, rnds, id) ==
    IF i >= count THEN sys
    ELSE LET rnd == rnds[i + 1]
             dir == Direction(i, count)
             particle == [_create_particle(sys, rnd.create, id) EXCEPT
                            !.velocity = <<dir[1] * rnd.speed, dir[2] * rnd.speed>>]
         IN  emit_radial_burst([sys EXCEPT !.particles = Append(@, particle)],
                               count, i + 1, rnds, id + 1)

(***************************************************************************)
(* VFXEngine                                                               *)
(***************************************************************************)
\* random.randint(a, b)
RandInt(a, b) == a..b

\* the kinds VFXEngine.render has a branch for
KnownKinds == {"glow", "motion_blur", "shake", "glitch", "radial_blur"}

\* an effect request as add_effect stores it
Effect(type, params) == [type |-> type, params |-> params]

\* the requests enqueued where frames are composited: two effects without
\* random calls and "sepia", which is no effect of the engine
EffectRequests ==
    {Effect("glow", [intensity |-> 70, radius |-> 2]),
     Effect("motion_blur", [strength |-> 40]),
     Effect("sepia", [k \in {} |-> 0])}

\* the frame a caller hands to render: frame[y][x] differs from pixel to pixel
BaseFrame(h, w) ==
    [y \in 0..(h - 1) |-> [x \in 0..(w - 1) |-> <<40 * x + 20, 90 * y + 60, 200 - 30 * x>>]]

\* what the random calls made for one effect request can return
EffectDraws(effect, h) ==
    CASE effect.type = "shake" ->
            [dx : RandInt(-Get(effect.params, "intensity", 5),
                          Get(effect.params, "intensity", 5)),
             dy : RandInt(-Get(effect.params, "intensity", 5),
                          Get(effect.params, "intensity", 5))]
      [] effect.type = "glitch" -> GlitchDraws(h, Get(effect.params, "intensity", 50))
      [] OTHER -> {[band |-> "none"]}

\* what the random calls of one render can return: one draw per request
RECURSIVE EffectDrawSeqs(_, _)
EffectDrawSeqs(effects, h) ==
    IF effects = <<>> THEN {<<>>}
    ELSE {<<d>> \o rest : d \in EffectDraws(Head(effects), h),
                          rest \in EffectDrawSeqs(Tail(effects), h)}

\* what the random calls of one VFXEngine.update can return: one draw per system
RECURSIVE SystemDrawSeqs(_, _, _)
SystemDrawSeqs(systs, handles, dt) ==
    IF handles = <<>> THEN {<<>>}
    ELSE {<<d>> \o rest : d \in UpdateDraws(systs[Head(handles)], dt),
                          rest \in SystemDrawSeqs(systs, Tail(handles), dt)}

\* the chain with a final else that rejects a kind it has no branch for
ApplyEffect_unknown_raising(effect, frame, prev, rnd) ==
    LET params == effect.params
    IN  CASE effect.type = "glow" ->
                [frame |-> apply_glow(frame, Get(params, "intensity", 50),
                                      Get(params, "radius", 20)),
                 error |-> None]
          [] effect.type = "motion_blur" /\ prev # NoFrame ->
                [frame |-> apply_motion_blur(frame, prev, Get(params, "strength", 50)),
                 error |-> None]
          [] effect.type = "shake" ->
                [frame |-> apply_shake(frame, rnd.dx, rnd.dy), error |-> None]
          [] effect.type = "glitch" ->
                apply_glitch(frame, Get(params, "intensity", 50), rnd)
          [] effect.type = "radial_blur" ->
                [frame |-> apply_radial_blur(
                               frame,
                               Get(params, "center", <<Cols(frame) \div 2, Rows(frame) \div 2>>),
                               Get(params, "strength", 50)),
                 error |-> None]
          [] OTHER -> [frame |-> frame,
                       error |-> IF effect.type \in KnownKinds THEN None ELSE "ValueError"]

\* the chain with the motion_blur branch taken whatever prev_frame is: blending
\* with None raises
ApplyEffect_blur_unguarded(effect, frame, prev, rnd) ==
    LET params == effect.params
    IN  CASE effect.type = "glow" ->
                [frame |-> apply_glow(frame, Get(params, "intensity", 50),
                                      Get(params, "radius", 20)),
                 error |-> None]
          [] effect.type = "motion_blur" ->
                IF prev = NoFrame THEN [frame |-> frame, error |-> "TypeError"]
                ELSE [frame |-> apply_motion_blur(frame, prev, Get(params, "strength", 50)),
                      error |-> None]
          [] effect.type = "shake" ->
                [frame |-> apply_shake(frame, rnd.dx, rnd.dy), error |-> None]
          [] effect.type = "glitch" ->
                apply_glitch(frame, Get(params, "intensity", 50), rnd)
          [] effect.type = "radial_blur" ->
                [frame |-> apply_radial_blur(
                               frame,
                               Get(params, "center", <<Cols(frame) \div 2, Rows(frame) \div 2>>),
                               Get(params, "strength", 50)),
                 error |-> None]
          [] OTHER -> [frame |-> frame, error |-> None]

\* the if / elif chain of VFXEngine.render for one request
ApplyEffect(effect, frame, prev, rnd) ==
    LET params == effect.params
    IN  CASE effect.type = "glow" ->
                [frame |-> apply_glow(frame, Get(params, "intensity", 50),
                                      Get(params, "radius", 20)),
                 error |-> None]
          [] effect.type = "motion_blur" /\ prev # NoFrame ->
                [frame |-> apply_motion_blur(frame, prev, Get(params, "strength", 50)),
                 error |-> None]
          [] effect.type = "shake" ->
                [frame |-> apply_shake(frame, rnd.dx, rnd.dy), error |-> None]
          [] effect.type = "glitch" ->
                apply_glitch(frame, Get(params, "intensity", 50), rnd)
          [] effect.type = "radial_blur" ->
                [frame |-> apply_radial_blur(
                               frame,
                               Get(params, "center", <<Cols(frame) \div 2, Rows(frame) \div 2>>),
                               Get(params, "strength", 50)),
                 error |-> None]
          [] OTHER -> [frame |-> frame, error |-> None]

\* the loop over active_effects taken from the last request backwards
RECURSIVE apply_effects_reversed(_, _, _, _, _)
apply_effects_reversed(effects, i, frame, prev, rnds) ==
    IF i > Len(effects) THEN [frame |-> frame, error |-> None]
    ELSE LET k == Len(effects) + 1 - i
             r == ApplyEffect(effects[k], frame, prev, rnds[k])
         IN  IF r.error # None THEN r
             ELSE apply_effects_reversed(effects, i + 1, r.frame, prev, rnds)

\* the loop over active_effects of VFXEngine.render, from request i on
RECURSIVE apply_effects(_, _, _, _, _)
apply_effects(effects, i, frame, prev, rnds) ==
    IF i > Len(effects) THEN [frame |-> frame, error |-> None]
    ELSE LET r == ApplyEffect(effects[i], frame, prev, rnds[i])
         IN  IF r.error # None THEN r
             ELSE apply_effects(effects, i + 1, r.frame, prev, rnds)

\* the loop running over particle_systems from its last element to its first
RECURSIVE render_systems_reversed(_, _, _)
render_systems_reversed(systs, handles, frame) ==
    IF handles = <<>> THEN [frame |-> frame, drawn |-> <<>>, error |-> None]
    ELSE LET one == render(systs[handles[Len(handles)]].particles, frame)
         IN  IF one.error # None THEN one
             ELSE LET rest == render_systems_reversed(
                                  systs, SubSeq(handles, 1, Len(handles) - 1), one.frame)
                  IN  [frame |-> rest.frame, drawn |-> one.drawn \o rest.drawn,
                       error |-> rest.error]

\* the loop over particle_systems of VFXEngine.render
RECURSIVE render_systems(_, _, _)
render_systems(systs, handles, frame) ==
    IF handles = <<>> THEN [frame |-> frame, drawn |-> <<>>, error |-> None]
    ELSE LET one == render(systs[Head(handles)].particles, frame)
         IN  IF one.error # None THEN one
             ELSE LET rest == render_systems(systs, Tail(handles), one.frame)
                  IN  [frame |-> rest.frame, drawn |-> one.drawn \o rest.drawn,
                       error |-> rest.error]

\* Buffers.  An array is named by how it was made; two names that differ are
\* two buffers.  The caller's array:
BaseBuffer == <<"base_frame">>

\* the array an EffectProcessor method returns: cv2.addWeighted, cv2.warpAffine
\* and frame.copy() allocate their result
EffectBuffer == <<"effect">>

\* frame = base_frame without the copy: the same buffer under another name
ndarray_alias(buffer) == buffer

\* ndarray.copy(): a new buffer with the pixels of the old one
ndarray_copy(buffer) == Append(buffer, "copy")

\* the request takes a branch of render's if / elif chain
TakesBranch(effect, prev) ==
    /\ effect.type \in KnownKinds
    /\ effect.type = "motion_blur" => prev # NoFrame

\* VFXEngine.render: the composite of base and particles, the frame returned
\* and the error raised; buffer names the array returned and base_after holds
\* the pixels of the caller's array when render returns.  ParticleSystem.render
\* draws in place on the array that frame names.
VFXEngine_render(base_frame, systs, handles, effects, prev, rnds) ==
    LET work == ndarray_copy(BaseBuffer)
        drawn == render_systems(systs, handles, base_frame)
        base_after == IF work = BaseBuffer THEN drawn.frame ELSE base_frame
    IN  IF drawn.error # None
        THEN [frame |-> NoFrame, composite |-> drawn.frame, drawn |-> drawn.drawn,
              error |-> drawn.error, buffer |-> <<>>, base_after |-> base_after]
        ELSE LET out == apply_effects(effects, 1, drawn.frame, prev, rnds)
                 fresh == \E k \in 1..Len(effects) : TakesBranch(effects[k], prev)
             IN  [frame |-> IF out.error = None THEN out.frame ELSE NoFrame,
                  composite |-> drawn.frame, drawn |-> drawn.drawn, error |-> out.error,
                  buffer |-> IF out.error # None THEN <<>>
                             ELSE IF fresh THEN EffectBuffer ELSE work,
                  base_after |-> base_after]

(***************************************************************************)
(* History kept beside the program state.                                  *)
(***************************************************************************)
\* what _create_particle made, with the emitter position and time it was made at
Birth(sys, h, p) ==
    [handle |-> h, emitter_pos |-> sys.emitter_pos, position |-> p.position,
     lifetime |-> p.lifetime, at |-> stats[h].total_time]

NoCalls == [render |-> 0, add_effect |-> 0]

NoStats == [total_time |-> 0, auto_emitted |-> 0, dt_within |-> TRUE]

NoCall == [op |-> "init", handle |-> 0, error |-> None, dt |-> 0, count |-> 0,
           frame |-> NoFrame, drawn |-> <<>>, base |-> NoFrame, composite |-> NoFrame,
           prev |-> NoFrame, rnds |-> <<>>, request |-> None, buffer |-> <<>>,
           base_after |-> NoFrame, pending |-> <<>>, enqueued_at |-> <<>>]

Handles == 1..Len(systems)

NextId == Len(created) + 1

(***************************************************************************)
(* Actions on a ParticleSystem through its handle.                         *)
(***************************************************************************)
\* system.emit(count)
Emit(h, count) ==
    /\ NextId + count - 1 <= MaxEmitted
    /\ \E rnds \in [1..count -> Draws(systems[h])] :
         LET s == emit(systems[h], rnds, NextId)
             born == SubSeq(s.particles, Len(systems[h].particles) + 1, Len(s.particles))
         IN  /\ systems' = [systems EXCEPT ![h] = s]
             /\ created' = created \o [i \in 1..Len(born) |-> Birth(systems[h], h, born[i])]
    /\ last' = [NoCall EXCEPT !.op = "emit", !.handle = h, !.count = count]
    /\ UNCHANGED <<engine, stats>>

\* one system.update(dt) call applied to st = [systems, created, stats, error]
StepUpdate(st, h, dt, rnd) ==
    LET sys == st.systems[h]
        id == Len(st.created) + 1
        r == update(sys, dt, rnd, id)
        s1 == [sys EXCEPT !.time_since_emit = @ + dt]
        born == [handle |-> h, emitter_pos |-> s1.emitter_pos,
                 position |-> _create_particle(s1, rnd, id).position,
                 lifetime |-> _create_particle(s1, rnd, id).lifetime,
                 at |-> st.stats[h].total_time]
    IN  [systems |-> [st.systems EXCEPT ![h] = r.sys],
         created |-> IF r.emitted = 1 THEN Append(st.created, born) ELSE st.created,
         stats |-> [st.stats EXCEPT ![h] =
                      [total_time |-> @.total_time + dt,
                       auto_emitted |-> @.auto_emitted + r.emitted,
                       dt_within |-> @.dt_within
                                     /\ dt * sys.emission_rate.num <= sys.emission_rate.den]],
         error |-> r.error]

Now == [systems |-> systems, created |-> created, stats |-> stats, error |-> None]

\* system.update(dt)
Update(h, dt) ==
    /\ stats[h].total_time + dt <= MaxTime
    /\ Emits(systems[h], dt) => Len(created) < MaxEmitted
    /\ \E rnd \in UpdateDraws(systems[h], dt) :
         \E st \in {StepUpdate(Now, h, dt, rnd)} :
             /\ Len(st.created) <= MaxEmitted
             /\ systems' = st.systems
             /\ created' = st.created
             /\ stats' = st.stats
             /\ last' = [NoCall EXCEPT !.op = "update", !.handle = h, !.dt = dt,
                                       !.error = st.error]
    /\ UNCHANGED engine

\* ExplosionEffect.emit_radial_burst(system, count), called as the examples of
\* the explosion preset do: once, on a system that has not emitted yet
EmitRadialBurst(h, count) ==
    /\ count > 0
    /\ systems[h].particles = <<>>
    /\ \A i \in 1..Len(created) : created[i].handle # h
    /\ NextId + count - 1 <= MaxEmitted
    /\ \E rnds \in [1..count -> BurstDraws(systems[h])] :
         LET s == emit_radial_burst(systems[h], count, 0, rnds, NextId)
             born == SubSeq(s.particles, Len(systems[h].particles) + 1, Len(s.particles))
         IN  /\ systems' = [systems EXCEPT ![h] = s]
             /\ created' = created \o [i \in 1..Len(born) |-> Birth(systems[h], h, born[i])]
    /\ last' = [NoCall EXCEPT !.op = "emit_radial_burst", !.handle = h, !.count = count]
    /\ UNCHANGED <<engine, stats>>

\* system.render(frame) on a frame of the caller's
Render(h) ==
    /\ LET r == render(systems[h].particles, Zeros(Height, Width))
       IN  last' = [NoCall EXCEPT !.op = "render", !.handle = h, !.error = r.error,
                                  !.frame = r.frame, !.drawn = r.drawn]
    /\ UNCHANGED <<systems, engine, created, stats>>

\* system.emitter_pos = pos
SetEmitterPos(h, pos) ==
    /\ systems[h].emitter_pos # pos
    /\ systems' = [systems EXCEPT ![h].emitter_pos = pos]
    /\ last' = [NoCall EXCEPT !.op = "set_emitter_pos", !.handle = h]
    /\ UNCHANGED <<engine, created, stats>>

(***************************************************************************)
(* A ParticleSystem constructed directly and driven through its methods.   *)
(***************************************************************************)
Init ==
    /\ \E c \in Configs : systems = <<ParticleSystem(c)>>
    /\ particle_systems = <<>>
    /\ active_effects = <<>>
    /\ prev_frame = NoFrame
    /\ calls = NoCalls
    /\ created = <<>>
    /\ stats = <<NoStats>>
    /\ last = NoCall

Next ==
    \/ \E h \in Handles, count \in Counts : Emit(h, count)
    \/ \E h \in Handles, count \in Counts : EmitRadialBurst(h, count)
    \/ \E h \in Handles, dt \in Dts : Update(h, dt)
    \/ \E h \in Handles : Render(h)

Spec == Init /\ [][Next]_vars

(***************************************************************************)
(* Actions on a VFXEngine.                                                 *)
(***************************************************************************)
\* the configurations registered with the engine
EngineConfigs == {FireConfig}

\* a template without random half-ranges, registered where frames are composited
BeaconConfig ==
    [position |-> <<0, 0>>,
     rate |-> Rate(1, 1),
     particle |-> [velocity |-> <<1, 0>>,
                   lifetime |-> 2,
                   color |-> <<250, 250, 250, 255>>,
                   size |-> 0]]

\* vfx.add_particle_system(config); the handle returned is Len(systems')
AddParticleSystem(config) ==
    /\ Len(systems) < MaxSystems
    /\ systems' = Append(systems, ParticleSystem(config))
    /\ particle_systems' = Append(particle_systems, Len(systems) + 1)
    /\ stats' = Append(stats, NoStats)
    /\ last' = [NoCall EXCEPT !.op = "add_particle_system", !.handle = Len(systems) + 1]
    /\ UNCHANGED <<active_effects, prev_frame, calls, created>>

\* add_effect dropping a request whose kind render has no branch for
AddEffect_validating(effect) ==
    /\ calls.add_effect < MaxEffects
    /\ active_effects' = IF effect.type \in KnownKinds THEN Append(active_effects, effect)
                         ELSE active_effects
    /\ calls' = [calls EXCEPT !.add_effect = @ + 1]
    /\ last' = [NoCall EXCEPT !.op = "add_effect", !.request = effect]
    /\ UNCHANGED <<systems, particle_systems, prev_frame, created, stats>>

\* vfx.add_effect(effect_type, params)
AddEffect(effect) ==
    /\ calls.add_effect < MaxEffects
    /\ active_effects' = Append(active_effects, effect)
    /\ calls' = [calls EXCEPT !.add_effect = @ + 1]
    /\ last' = [NoCall EXCEPT !.op = "add_effect", !.request = effect]
    /\ UNCHANGED <<systems, particle_systems, prev_frame, created, stats>>

\* the loop of VFXEngine.update: an error raised by a system ends it
RECURSIVE VFXEngine_update(_, _, _, _)
VFXEngine_update(st, handles, dt, rnds) ==
    IF handles = <<>> \/ st.error # None THEN st
    ELSE VFXEngine_update(StepUpdate(st, Head(handles), dt, Head(rnds)),
                          Tail(handles), dt, Tail(rnds))

\* vfx.update(dt)
EngineUpdate(dt) ==
    /\ \A i \in 1..Len(particle_systems) : stats[particle_systems[i]].total_time + dt <= MaxTime
    /\ Len(created) + Cardinality({i \in 1..Len(particle_systems) :
                                       Emits(systems[particle_systems[i]], dt)}) <= MaxEmitted
    /\ \E rnds \in SystemDrawSeqs(systems, particle_systems, dt) :
         \E st \in {VFXEngine_update(Now, particle_systems, dt, rnds)} :
             /\ Len(st.created) <= MaxEmitted
             /\ systems' = st.systems
             /\ created' = st.created
             /\ stats' = st.stats
             /\ last' = [NoCall EXCEPT !.op = "engine_update", !.dt = dt, !.error = st.error]
    /\ UNCHANGED engine

\* render keeping the frame as it was before the effects as the previous frame
EngineRender_storing_composite(base_frame) ==
    /\ calls.render < MaxRenders
    /\ \E rnds \in EffectDrawSeqs(active_effects, Rows(base_frame)) :
         \E r \in {VFXEngine_render(base_frame, systems, particle_systems, active_effects,
                                     prev_frame, rnds)} :
             /\ prev_frame' = IF r.error = None THEN r.composite ELSE prev_frame
             /\ last' = [NoCall EXCEPT !.op = "engine_render", !.error = r.error,
                                       !.frame = r.frame, !.drawn = r.drawn,
                                       !.base = base_frame, !.composite = r.composite,
                                       !.prev = prev_frame, !.rnds = rnds,
                                       !.buffer = r.buffer,
                                       !.base_after = r.base_after]
    /\ calls' = [calls EXCEPT !.render = @ + 1]
    /\ UNCHANGED <<systems, particle_systems, active_effects, created, stats>>

\* vfx.render(base_frame)
EngineRender(base_frame) ==
    /\ calls.render < MaxRenders
    /\ \E rnds \in EffectDrawSeqs(active_effects, Rows(base_frame)) :
         \E r \in {VFXEngine_render(base_frame, systems, particle_systems, active_effects,
                                     prev_frame, rnds)} :
             /\ prev_frame' = IF r.error = None THEN r.frame ELSE prev_frame
             /\ last' = [NoCall EXCEPT !.op = "engine_render", !.error = r.error,
                                       !.frame = r.frame, !.drawn = r.drawn,
                                       !.base = base_frame, !.composite = r.composite,
                                       !.prev = prev_frame, !.rnds = rnds,
                                       !.buffer = r.buffer,
                                       !.base_after = r.base_after]
    /\ calls' = [calls EXCEPT !.render = @ + 1]
    /\ UNCHANGED <<systems, particle_systems, active_effects, created, stats>>

\* vfx.clear_effects()
ClearEffects ==
    /\ active_effects' = <<>>
    /\ last' = [NoCall EXCEPT !.op = "clear_effects"]
    /\ UNCHANGED <<systems, particle_systems, prev_frame, calls, created, stats>>

\* clear_particles emptying the particle list of every system and keeping the
\* systems registered
ClearParticles_emptying ==
    /\ systems' = [h \in DOMAIN systems |-> [systems[h] EXCEPT !.particles = <<>>]]
    /\ last' = [NoCall EXCEPT !.op = "clear_particles"]
    /\ UNCHANGED <<particle_systems, active_effects, prev_frame, calls, created, stats>>

\* vfx.clear_particles(); the caller's handles still refer to the systems
ClearParticles ==
    /\ particle_systems' = <<>>
    /\ last' = [NoCall EXCEPT !.op = "clear_particles"]
    /\ UNCHANGED <<systems, active_effects, prev_frame, calls, created, stats>>

(***************************************************************************)
(* A VFXEngine compositing frames: one system is registered and updated,   *)
(* effects are enqueued and cleared, frames are rendered.                  *)
(***************************************************************************)
InitEngine ==
    /\ systems = <<>>
    /\ particle_systems = <<>>
    /\ active_effects = <<>>
    /\ prev_frame = NoFrame
    /\ calls = NoCalls
    /\ created = <<>>
    /\ stats = <<>>
    /\ last = NoCall

NextEngine ==
    \/ systems = <<>> /\ AddParticleSystem(BeaconConfig)
    \/ \E e \in EffectRequests : AddEffect(e)
    \/ \E dt \in FrameDts : EngineUpdate(dt)
    \/ EngineRender(BaseFrame(Height, Width))
    \/ ClearEffects
    \/ ClearParticles

SpecEngine == InitEngine /\ [][NextEngine]_vars

(***************************************************************************)
(* A VFXEngine whose systems the caller drives through the handles that    *)
(* add_particle_system returned: particles are emitted one at a time, the  *)
(* emitter is moved, the engine is updated.                                *)
(***************************************************************************)
NextHandles ==
    \/ \E c \in EngineConfigs : AddParticleSystem(c)
    \/ \E h \in Handles : Emit(h, 1)
    \/ \E h \in Handles, pos \in EmitterPositions : SetEmitterPos(h, pos)
    \/ \E dt \in FrameDts : EngineUpdate(dt)

SpecHandles == InitEngine /\ [][NextHandles]_vars

(***************************************************************************)
(* Properties of the particle simulation.                                  *)
(***************************************************************************)
Live(h) == systems[h].particles

LiveIds(h) == {Live(h)[i].id : i \in 1..Len(Live(h))}

\* seconds of update calls made on the particle's system since it was created
Age(p) == stats[created[p.id].handle].total_time - created[p.id].at

\* C1: emission rate fidelity.  For a system with rate R > 0, when every dt
\* passed to update so far was at most 1/R and the dt values sum to T, the
\* update calls have emitted exactly floor(T * R) particles.
C1_EmissionRateFidelity ==
    \A h \in Handles :
        LET rate == systems[h].emission_rate
        IN  (rate.num > 0 /\ stats[h].dt_within)
            => stats[h].auto_emitted = (stats[h].total_time * rate.num) \div rate.den

\* C2: on a system with emission rate 0, an update(dt) call completes without
\* error, emits nothing automatically and leaves no expired particle behind.
C2_RateZeroUpdateCompletes ==
    (last.op = "update" /\ systems[last.handle].emission_rate.num = 0)
    => /\ last.error = None
       /\ stats[last.handle].auto_emitted = 0
       /\ \A i \in 1..Len(Live(last.handle)) : Live(last.handle)[i].lifetime > 0

\* C3: after an update(dt) call has returned, the live set holds no particle
\* with remaining lifetime <= 0, and a particle that has left the live set
\* never comes back into it.
C3_NoDeadAfterUpdate ==
    /\ [](\A h \in Handles :
            (last.op = "update" /\ last.handle = h /\ last.error = None)
            => \A i \in 1..Len(Live(h)) : Live(h)[i].lifetime > 0)
    /\ [][\A h \in Handles :
            \A j \in 1..Len(systems'[h].particles) :
                systems'[h].particles[j].id <= Len(created)
                => systems'[h].particles[j].id \in LiveIds(h)]_vars

\* C3 witness: an update has returned and removed a particle it expired,
\* while another particle is still live
C3_Witness ==
    /\ last.op = "update" /\ last.error = None /\ last.dt > 0
    /\ Live(last.handle) # <<>>
    /\ \E id \in 1..Len(created) :
          created[id].handle = last.handle /\ id \notin LiveIds(last.handle)

\* C4: no step raises the remaining lifetime of a particle: a particle that
\* is live before and after a call has a lifetime no larger than before.
C4_LifetimeNonIncreasing ==
    [][\A h \in Handles :
          \A i \in 1..Len(Live(h)), j \in 1..Len(systems'[h].particles) :
              systems'[h].particles[j].id = Live(h)[i].id
              => systems'[h].particles[j].lifetime <= Live(h)[i].lifetime]_vars

\* C4 witness: a particle that has lived through two update calls with dt > 0
C4_Witness ==
    /\ last.op = "update" /\ last.dt > 0
    /\ \E i \in 1..Len(Live(last.handle)) :
          LET p == Live(last.handle)[i]
          IN  Age(p) >= 2 /\ p.lifetime = p.max_lifetime - Age(p) /\ p.lifetime > 0

\* C5: in every reachable state every live particle has remaining lifetime
\* <= its original lifetime.
C5_LifetimeAtMostOriginal ==
    \A h \in Handles :
        \A i \in 1..Len(Live(h)) : Live(h)[i].lifetime <= Live(h)[i].max_lifetime

\* C5 witness: after a radial burst, an update and a render, a burst particle
\* with lifetime strictly below its original lifetime is live
C5_Witness ==
    /\ last.op = "render"
    /\ \E i \in 1..Len(Live(last.handle)) :
          LET p == Live(last.handle)[i]
          IN  /\ p.lifetime < p.max_lifetime
              /\ Abs(p.velocity[1]) + Abs(p.velocity[2]) >= 50

\* C6: render draws no particle whose remaining lifetime is <= 0 and
\* completes without error.
C6_DeadNeverDrawn ==
    last.op = "render"
    => /\ last.error = None
       /\ \A i \in 1..Len(last.drawn) : last.drawn[i].lifetime > 0

\* C7: emit(count) appends exactly count new particles to the live set of its
\* system and leaves every particle already there unchanged and in place; no
\* other system changes.
C7_EmitAppendsCount ==
    [][last'.op = "emit"
       => /\ Len(systems'[last'.handle].particles)
               = Len(Live(last'.handle)) + last'.count
          /\ SubSeq(systems'[last'.handle].particles, 1, Len(Live(last'.handle)))
               = Live(last'.handle)
          /\ \A j \in (Len(Live(last'.handle)) + 1)..Len(systems'[last'.handle].particles) :
                systems'[last'.handle].particles[j].id > Len(created)
          /\ \A h \in Handles : h # last'.handle => systems'[h] = systems[h]]_vars

\* C7 witness: emit(count) with count > 0 has acted on a system that already
\* held a particle
C7_Witness ==
    /\ last.op = "emit" /\ last.count > 0
    /\ Len(Live(last.handle)) > last.count

\* C8: burst drain.  On a system with rate 0, after an update(dt) call with
\* dt > 0 every particle still live is younger than its individual lifetime:
\* a particle is removed by the first update at which the time elapsed since
\* its creation reaches its lifetime.
C8_BurstDrain ==
    \A h \in Handles :
        (systems[h].emission_rate.num = 0
         /\ last.op = "update" /\ last.handle = h /\ last.dt > 0)
        => \A i \in 1..Len(Live(h)) : Age(Live(h)[i]) < created[Live(h)[i].id].lifetime

(***************************************************************************)
(* Properties of a VFXEngine and of the handles it returns.                *)
(***************************************************************************)
\* the spread of the template of the system behind handle h
Spread(h) == Get(systems[h].particle_config, "spread", 0)

\* C9: every particle was created at most spread away, on each axis, from the
\* emitter position in force when it was created, also after the caller has
\* moved the emitter through the handle; and a move of the emitter leaves
\* the particles of every system as they were.
C9_SpawnWithinSpread ==
    /\ [](\A id \in 1..Len(created) :
            \A k \in 1..2 :
                Abs(created[id].position[k] - created[id].emitter_pos[k])
                    <= Spread(created[id].handle))
    /\ [][last'.op = "set_emitter_pos"
           => \A h \in Handles : systems'[h].particles = systems[h].particles]_vars

\* a system holds a particle created before the emitter was moved and one
\* created around the new emitter position, off that position on both axes
C9_Witness ==
    \E h \in Handles :
        /\ systems[h].emitter_pos # Get(systems[h].config, "position", <<0, 0>>)
        /\ \E i, j \in 1..Len(Live(h)) :
             /\ created[Live(h)[i].id].emitter_pos # systems[h].emitter_pos
             /\ created[Live(h)[j].id].emitter_pos = systems[h].emitter_pos
             /\ created[Live(h)[j].id].position[1] # systems[h].emitter_pos[1]
             /\ created[Live(h)[j].id].position[2] # systems[h].emitter_pos[2]

\* the frame after the first k pending requests were applied, one after the
\* other, to the composite of the last render
RECURSIVE AppliedUpTo(_)
AppliedUpTo(k) ==
    IF k = 0 THEN last.composite
    ELSE ApplyEffect(active_effects[k], AppliedUpTo(k - 1), last.prev, last.rnds[k]).frame

\* C10: effect composition order.  The frame a render returns is the fold of
\* the pending requests, in enqueue order, over the base frame with the
\* particles drawn on it: with [A, B] pending it is B applied to what A made
\* of that composite.
C10_EffectCompositionOrder ==
    (last.op = "engine_render" /\ last.error = None)
    => last.frame = AppliedUpTo(Len(active_effects))

\* a render with a particle drawn and two requests pending whose order matters
C10_Witness ==
    /\ last.op = "engine_render"
    /\ last.error = None
    /\ last.drawn # <<>>
    /\ Len(active_effects) = 2
    /\ LET A == active_effects[1]
           B == active_effects[2]
           a_first == ApplyEffect(B, ApplyEffect(A, last.composite, last.prev,
                                                 last.rnds[1]).frame,
                                  last.prev, last.rnds[2]).frame
           b_first == ApplyEffect(A, ApplyEffect(B, last.composite, last.prev,
                                                 last.rnds[2]).frame,
                                  last.prev, last.rnds[1]).frame
       IN  /\ last.frame = a_first
           /\ a_first # b_first
           /\ last.frame # ApplyEffect(B, last.composite, last.prev, last.rnds[2]).frame

\* C11: the pending list is the sequence of requests passed to add_effect
\* since the last clear_effects.  It starts empty; add_effect appends its
\* request, whatever the kind; clear_effects empties the list; render,
\* update, add_particle_system and clear_particles leave it as it was, so
\* the next render finds the same requests.
C11_PendingList ==
    /\ active_effects = <<>>
    /\ [][/\ last'.op = "add_effect"
              => active_effects' = Append(active_effects, last'.request)
          /\ last'.op = "clear_effects" => active_effects' = <<>>
          /\ last'.op \in {"engine_render", "engine_update", "add_particle_system",
                            "clear_particles"}
              => active_effects' = active_effects]_vars

\* the second render of a run finds pending, and applies again, a list that
\* holds a request of a kind render has no branch for
C11_Witness ==
    /\ last.op = "engine_render"
    /\ calls.render = 2
    /\ Len(active_effects) = 2
    /\ \E k \in 1..2 : active_effects[k].type \notin KnownKinds
    /\ last.frame # last.composite
    /\ last.prev # NoFrame

\* the frame after the first k pending requests were applied to the composite
\* of the last render, the requests of a kind in kinds left out
RECURSIVE AppliedWithout(_, _)
AppliedWithout(k, kinds) ==
    IF k = 0 THEN last.composite
    ELSE IF active_effects[k].type \in kinds THEN AppliedWithout(k - 1, kinds)
    ELSE ApplyEffect(active_effects[k], AppliedWithout(k - 1, kinds), last.prev,
                     last.rnds[k]).frame

\* C12: motion blur on the first frame is a no-op.  A render made while the
\* engine holds no previous frame raises no error and returns what the
\* pending requests other than motion_blur make, in order, of the base frame
\* with the particles drawn on it.
C12_MotionBlurFirstFrame ==
    (last.op = "engine_render" /\ last.prev = NoFrame)
    => /\ last.error = None
       /\ last.frame = AppliedWithout(Len(active_effects), {"motion_blur"})

\* a first render with a particle drawn, motion_blur pending before another
\* request, and that other request applied
C12_Witness ==
    /\ last.op = "engine_render"
    /\ last.prev = NoFrame
    /\ calls.render = 1
    /\ last.drawn # <<>>
    /\ Len(active_effects) = 2
    /\ active_effects[1].type = "motion_blur"
    /\ active_effects[2].type = "glow"
    /\ last.frame # last.composite

\* the kinds among the pending requests that render has no branch for
UnknownPending ==
    {active_effects[k].type : k \in 1..Len(active_effects)} \ KnownKinds

\* C13: a request of a kind other than glow, motion_blur, shake, glitch and
\* radial_blur is skipped by render: the render raises no error, returns what
\* it would return were the request not in the pending list, and leaves the
\* request in the list.
C13_UnknownKindSkipped ==
    /\ []((last.op = "engine_render" /\ UnknownPending # {})
          => /\ last.error = None
             /\ last.frame = AppliedWithout(Len(active_effects), UnknownPending))
    /\ [][last'.op = "engine_render" => active_effects' = active_effects]_vars

\* a render with a request of an unknown kind pending before a glow request
\* that was applied, the unknown request still pending afterwards
C13_Witness ==
    /\ last.op = "engine_render"
    /\ last.error = None
    /\ Len(active_effects) = 2
    /\ active_effects[1].type = "sepia"
    /\ active_effects[2].type = "glow"
    /\ last.frame # last.composite
    /\ last.frame = ApplyEffect(active_effects[2], last.composite, last.prev,
                                last.rnds[2]).frame

\* C14: render never mutates the caller's base frame.  When a render returns
\* or raises, the caller's array holds the pixels it held at the call; a
\* frame returned is another buffer than the caller's.
C14_BaseFrameNotMutated ==
    last.op = "engine_render"
    => /\ last.base_after = last.base
       /\ last.error = None => last.buffer # BaseBuffer

\* a render that drew a particle and applied no effect: the frame returned is
\* the array the particles were drawn on, and it differs from the base frame
C14_Witness ==
    /\ last.op = "engine_render"
    /\ last.error = None
    /\ last.drawn # <<>>
    /\ last.frame = last.composite
    /\ last.frame # last.base
    /\ last.buffer = ndarray_copy(BaseBuffer)
    /\ last.base_after = last.base

\* C15: clear_particles discards every registered system.  Right after it no
\* system is registered; while none is registered, an update changes no
\* system and creates no particle, and a render draws no particle: what it
\* returns is the fold of the pending requests over the base frame.
C15_ClearParticles ==
    /\ [](last.op = "clear_particles" => particle_systems = <<>>)
    /\ []((last.op = "engine_render" /\ particle_systems = <<>>)
          => /\ last.drawn = <<>>
             /\ last.composite = last.base
             /\ last.error = None
             /\ last.frame = AppliedUpTo(Len(active_effects)))
    /\ [][(last'.op = "engine_update" /\ particle_systems = <<>>)
           => (systems' = systems /\ created' = created /\ stats' = stats)]_vars

\* a render after clear_particles: the system once registered still holds a
\* live particle inside the frame, nothing is drawn, a pending glow is applied
C15_Witness ==
    /\ last.op = "engine_render"
    /\ particle_systems = <<>>
    /\ \E h \in Handles :
         \E i \in 1..Len(Live(h)) :
             /\ Live(h)[i].position[1] \in 0..(Width - 1)
             /\ Live(h)[i].position[2] \in 0..(Height - 1)
    /\ last.drawn = <<>>
    /\ \E k \in 1..Len(active_effects) : active_effects[k].type = "glow"
    /\ last.frame # last.base

\* C16: one ParticleSystem.update(dt) call creates at most one particle,
\* however many emission intervals dt or the accumulated time covers, and the
\* accumulator is 0 after a call that emitted.
C16_OneEmissionPerUpdate ==
    [][last'.op = "update"
       => LET h == last'.handle
          IN  /\ Len(created') - Len(created) <= 1
              /\ stats'[h].auto_emitted - stats[h].auto_emitted <= 1
              /\ Len(systems'[h].particles) <= Len(systems[h].particles) + 1
              /\ Len(created') > Len(created) => systems'[h].time_since_emit = 0]_vars

\* the first update of a system, with a dt of two emission intervals, has
\* emitted one particle and left the accumulator at 0
C16_Witness ==
    /\ last.op = "update"
    /\ last.error = None
    /\ last.dt = 2
    /\ LET sys == systems[last.handle]
       IN  /\ sys.emission_rate.num > 0
           /\ last.dt * sys.emission_rate.num >= 2 * sys.emission_rate.den
           /\ sys.time_since_emit = 0
           /\ stats[last.handle].total_time = 2
           /\ stats[last.handle].auto_emitted = 1

(***************************************************************************)
(* One effect of the engine applied to one frame: the frame, the previous  *)
(* frame and the request are chosen at the start, the random calls when    *)
(* the effect is applied.                                                  *)
(***************************************************************************)
\* the least number of rows for which apply_glitch's random.randint(0, h - 50)
\* has a value to return
MinGlitchRows == 50

\* a uint8 frame whose pixels differ from one another
Ramp(h, w) ==
    [y \in 0..(h - 1) |->
        [x \in 0..(w - 1) |->
            <<(40 * x + 20) % 256, (90 * y + 60) % 256, (200 + 30 * x + 7 * y) % 256>>]]

\* a uint8 frame that is black but for one white pixel in its first row
Speck(h, w) ==
    [y \in 0..(h - 1) |->
        [x \in 0..(w - 1) |->
            IF y = 0 /\ x = w - 1 THEN <<255, 255, 255>> ELSE <<0, 0, 0>>]]

\* the frames effects are applied to
TestFrames ==
    {Ramp(Height, Width), Speck(Height, Width), Zeros(Height, Width),
     Ramp(MinGlitchRows, Width)}

\* the requests applied: parameters inside and outside their documented ranges
EffectCalls ==
    {Effect("glow", [intensity |-> i, radius |-> r]) : i \in {-100, 50, 500}, r \in {1, 2}}
    \cup {Effect("glow", [k \in {} |-> 0])}
    \cup {Effect("motion_blur", [strength |-> st]) : st \in {40, 150}}
    \cup {Effect("shake", [intensity |-> i]) : i \in {0, 1, 2}}
    \cup {Effect("glitch", [intensity |-> i]) : i \in {0, 50, 100}}
    \cup {Effect("radial_blur", [strength |-> st]) : st \in {-50, 0, 9, 50, 150}}
    \cup {Effect("radial_blur", [strength |-> 50, center |-> c]) : c \in {<<0, 0>>, <<2, 1>>}}

InitEffects ==
    /\ systems = <<>>
    /\ particle_systems = <<>>
    /\ active_effects = <<>>
    /\ prev_frame = NoFrame
    /\ calls = NoCalls
    /\ created = <<>>
    /\ stats = <<>>
    /\ \E frame \in TestFrames, request \in EffectCalls :
         \E prev \in {NoFrame} \cup {f \in TestFrames : DOMAIN f = DOMAIN frame} :
             last = [NoCall EXCEPT !.base = frame, !.prev = prev, !.request = request]

\* the branch of VFXEngine.render for the request, run on the chosen frame
ApplyRequest ==
    /\ last.op = "init"
    /\ \E rnd \in EffectDraws(last.request, Rows(last.base)) :
         \E r \in {ApplyEffect(last.request, last.base, last.prev, rnd)} :
             last' = [last EXCEPT !.op = "apply_effect", !.rnds = <<rnd>>,
                                  !.frame = r.frame, !.error = r.error]
    /\ UNCHANGED <<systems, engine, created, stats>>

NextEffects == ApplyRequest

SpecEffects == InitEffects /\ [][NextEffects]_vars

\* frame[y][x][c] for every pixel and channel of frame is in 0..255
InDisplayRange(frame) ==
    \A y \in DOMAIN frame : \A x \in DOMAIN frame[y] : \A c \in 1..3 :
        frame[y][x][c] \in 0..255

\* C17: every channel of a frame an effect returns lies in 0..255, and where
\* the weighted sum of glow or motion_blur leaves that range the channel is
\* 255 (above) or 0 (below), not the sum modulo 256.
C17_Clamping ==
    (last.op = "apply_effect" /\ last.error = None)
    => /\ InDisplayRange(last.frame)
       /\ (last.request.type = "glow"
           \/ (last.request.type = "motion_blur" /\ last.prev # NoFrame))
          => LET p == last.request.params
                 glow == last.request.type = "glow"
                 radius == Get(p, "radius", 20)
                 other == IF glow
                          THEN GaussianBlur(last.base,
                                            IF radius % 2 = 0 THEN radius + 1 ELSE radius)
                          ELSE last.prev
                 wa == IF glow THEN 100 ELSE 100 - Get(p, "strength", 50)
                 wb == IF glow THEN Get(p, "intensity", 50) ELSE Get(p, "strength", 50)
             IN  \A y \in DOMAIN last.frame : \A x \in DOMAIN last.frame[y] : \A c \in 1..3 :
                     LET sum == last.base[y][x][c] * wa + other[y][x][c] * wb
                     IN  /\ sum >= 255 * 100 => last.frame[y][x][c] = 255
                         /\ sum <= 0 => last.frame[y][x][c] = 0

\* glow with intensity 5.0 returned a frame with a channel whose weighted sum
\* is above 255 and not a multiple of 256 more than 255
C17_Witness ==
    /\ last.op = "apply_effect"
    /\ last.error = None
    /\ last.request = Effect("glow", [intensity |-> 500, radius |-> 2])
    /\ \E y \in DOMAIN last.frame : \E x \in DOMAIN last.frame[y] : \E c \in 1..3 :
         LET sum == last.base[y][x][c] * 100 + GaussianBlur(last.base, 3)[y][x][c] * 500
         IN  /\ sum > 255 * 100
             /\ Mod(RoundDiv(sum, 100), 256) # 255
             /\ last.frame[y][x][c] = 255

\* frame is base moved by (dx, dy): a pixel whose source lies outside base is 0
IsTranslation(frame, base, dx, dy) ==
    \A y \in DOMAIN frame : \A x \in DOMAIN frame[y] :
        frame[y][x] = IF 0 <= y - dy /\ y - dy < Rows(base) /\ 0 <= x - dx /\ x - dx < Cols(base)
                      THEN base[y - dy][x - dx]
                      ELSE <<0, 0, 0>>

\* C18: shake returns a frame of the size of its input that is the input
\* moved by some integers dx, dy in -intensity..intensity; what is moved out
\* is lost and what is uncovered is 0, never the pixels of the opposite edge.
C18_ShakeIsTranslation ==
    (last.op = "apply_effect" /\ last.request.type = "shake")
    => /\ last.error = None
       /\ DOMAIN last.frame = DOMAIN last.base
       /\ \A y \in DOMAIN last.frame : DOMAIN last.frame[y] = DOMAIN last.base[y]
       /\ LET i == Get(last.request.params, "intensity", 5)
          IN  \E dx \in (-i)..i, dy \in (-i)..i :
                  IsTranslation(last.frame, last.base, dx, dy)

\* a shake to the right by one column: the first column is black although the
\* last column of the input is not, and the second column is the input's first
C18_Witness ==
    /\ last.op = "apply_effect"
    /\ last.request.type = "shake"
    /\ last.rnds[1].dx = 1
    /\ last.rnds[1].dy = 0
    /\ last.frame[0][0] = <<0, 0, 0>>
    /\ last.base[0][Cols(last.base) - 1] # <<0, 0, 0>>
    /\ last.frame[0][1] = last.base[0][0]
    /\ last.base[0][0] # <<0, 0, 0>>

(***************************************************************************)
(* A ParticleSystem constructed from a configuration with fields left out. *)
(***************************************************************************)
\* a configuration with every field the constructor and _create_particle read
FullConfig ==
    [position |-> <<1, 1>>,
     rate |-> Rate(1, 2),
     particle |-> [spread |-> 0,
                   velocity |-> <<1, 0>>,
                   velocity_random |-> <<1, 0>>,
                   acceleration |-> <<0, 1>>,
                   lifetime |-> 3,
                   lifetime_random |-> 1,
                   color |-> <<10, 20, 30, 200>>,
                   size |-> 1,
                   size_random |-> 0,
                   angular_velocity |-> 90]]

\* the dict d with only the keys in keys
Restrict(d, keys) == [k \in keys |-> d[k]]

\* the particle templates with every field, no field, one field left out, or
\* one field only
PartialTemplates ==
    LET all == DOMAIN FullConfig.particle
    IN  {Restrict(FullConfig.particle, keys) :
            keys \in {all, {}} \cup {all \ {k} : k \in all} \cup {{k} : k \in all}}

\* FullConfig with a subset of its top-level fields, and with every field of
\* FullConfig around one of the partial templates
PartialConfigs ==
    {Restrict(FullConfig, keys) : keys \in SUBSET DOMAIN FullConfig}
    \cup {[FullConfig EXCEPT !.particle = t] : t \in PartialTemplates}
    \cup {[particle |-> t] : t \in PartialTemplates}

InitDefaults ==
    /\ \E c \in PartialConfigs : systems = <<ParticleSystem(c)>>
    /\ particle_systems = <<>>
    /\ active_effects = <<>>
    /\ prev_frame = NoFrame
    /\ calls = NoCalls
    /\ created = <<>>
    /\ stats = <<NoStats>>
    /\ last = NoCall

NextDefaults ==
    \/ \E h \in Handles : Emit(h, 1)
    \/ \E h \in Handles, dt \in FrameDts : Update(h, dt)
    \/ \E h \in Handles : Render(h)

SpecDefaults == InitDefaults /\ [][NextDefaults]_vars

\* C19: a system built from a configuration with fields absent is emitted
\* from, updated and rendered without an error, and each of its particles
\* has the default of an absent field: velocity (0, -50) before the random
\* offset and the acceleration since its creation, lifetime 2 before the
\* random offset, color (255, 255, 255, 255).
C19_MissingFieldsDefault ==
    /\ last.error = None
    /\ \A h \in Handles : \A i \in 1..Len(Live(h)) :
         LET p == Live(h)[i]
             pc == systems[h].particle_config
             age == p.max_lifetime - p.lifetime
             vr == Get(pc, "velocity_random", <<0, 0>>)
             lr == Get(pc, "lifetime_random", 0)
         IN  /\ "particle" \notin DOMAIN systems[h].config => pc = [k \in {} |-> 0]
             /\ "color" \notin DOMAIN pc => p.color = <<255, 255, 255, 255>>
             /\ "lifetime" \notin DOMAIN pc => p.max_lifetime \in {2 - lr, 2 + lr}
             /\ "velocity" \notin DOMAIN pc
                => /\ p.velocity[1] - p.acceleration[1] * age \in {0 - vr[1], 0 + vr[1]}
                   /\ p.velocity[2] - p.acceleration[2] * age \in {-50 - vr[2], -50 + vr[2]}

\* a system built from the empty record has been emitted from, updated and
\* rendered: its particle has aged and carries the three defaults
C19_Witness ==
    /\ last.op = "render"
    /\ last.error = None
    /\ systems[1].config = [k \in {} |-> 0]
    /\ \E i \in 1..Len(Live(1)) :
         /\ Live(1)[i].lifetime < Live(1)[i].max_lifetime
         /\ Live(1)[i].max_lifetime = 2
         /\ Live(1)[i].velocity = <<0, -50>>
         /\ Live(1)[i].color = <<255, 255, 255, 255>>

(***************************************************************************)
(* A scene as examples/lion_hunt_cinematic.py constructs it: one engine    *)
(* with two systems registered, a trail and an impact cloud whose discs    *)
(* overlap, driven by update and render and through the two handles.       *)
(***************************************************************************)
\* shaped like dust_config: emitted on every frame, lifetime with a half-range
TrailConfig ==
    [position |-> <<1, 0>>,
     rate |-> Rate(1, 1),
     particle |-> [velocity |-> <<0, 0>>,
                   lifetime |-> 2,
                   lifetime_random |-> 1,
                   color |-> <<180, 160, 140, 120>>,
                   size |-> 1]]

\* shaped like impact_config: a lower rate, another color, beside the trail
ImpactConfig ==
    [position |-> <<1, 1>>,
     rate |-> Rate(1, 2),
     particle |-> [velocity |-> <<0, 0>>,
                   lifetime |-> 2,
                   color |-> <<200, 180, 150, 150>>,
                   size |-> 1]]

\* LionHuntScene.__init__: VFXEngine() and the two add_particle_system calls
InitScene ==
    /\ systems = <<ParticleSystem(TrailConfig), ParticleSystem(ImpactConfig)>>
    /\ particle_systems = <<1, 2>>
    /\ active_effects = <<>>
    /\ prev_frame = NoFrame
    /\ calls = NoCalls
    /\ created = <<>>
    /\ stats = <<NoStats, NoStats>>
    /\ last = NoCall

NextScene ==
    \/ \E h \in Handles : Emit(h, 1)
    \/ \E dt \in FrameDts : EngineUpdate(dt)
    \/ EngineRender(BaseFrame(Height, Width))

SpecScene == InitScene /\ [][NextScene]_vars

\* the position of handle h in particle_systems
Registration(h) == CHOOSE i \in 1..Len(particle_systems) : particle_systems[i] = h

\* the live particles of the registered systems whose position is inside frame
InFrame(frame) ==
    {<<h, i>> \in Handles \X (1..MaxEmitted) :
        /\ \E k \in 1..Len(particle_systems) : particle_systems[k] = h
        /\ i <= Len(Live(h))
        /\ Live(h)[i].position[1] \in 0..(Cols(frame) - 1)
        /\ Live(h)[i].position[2] \in 0..(Rows(frame) - 1)}

\* entry d of a render's drawn list covers the pixel (x, y)
Covers(d, x, y) ==
    (x - d.pos[1]) * (x - d.pos[1]) + (y - d.pos[2]) * (y - d.pos[2]) <= d.radius * d.radius

\* each list of live particles is in creation order
LiveInCreationOrder ==
    \A h \in Handles : \A i, j \in 1..Len(Live(h)) :
        i < j => Live(h)[i].id < Live(h)[j].id

\* what a render drew: every live particle inside the frame once, those of
\* one system in creation order, those of a system registered earlier before
\* those of a system registered later
DrawnInListOrder ==
    /\ {last.drawn[k].id : k \in 1..Len(last.drawn)}
         = {Live(hi[1])[hi[2]].id : hi \in InFrame(last.base)}
    /\ Len(last.drawn) = Cardinality(InFrame(last.base))
    /\ \A k, m \in 1..Len(last.drawn) :
         k < m => LET hk == created[last.drawn[k].id].handle
                      hm == created[last.drawn[m].id].handle
                  IN  \/ Registration(hk) < Registration(hm)
                      \/ hk = hm /\ last.drawn[k].id < last.drawn[m].id

\* a pixel of the composite shows the disc drawn last among those covering it
LastDrawnOnTop ==
    \A y \in DOMAIN last.composite : \A x \in DOMAIN last.composite[y] :
        LET over == {k \in 1..Len(last.drawn) : Covers(last.drawn[k], x, y)}
        IN  last.composite[y][x] =
                IF over = {} THEN last.base[y][x]
                ELSE last.drawn[CHOOSE k \in over : \A m \in over : m <= k].color

\* C20: the live particles of a system are listed in creation order, also
\* after some expired; a render draws the systems in registration order and
\* the particles of one system in creation order, and a pixel shows the disc
\* drawn last: of two overlapping particles of one system the one created
\* later, of particles of two systems the one of the system registered later.
C20_DrawOrder ==
    /\ LiveInCreationOrder
    /\ (last.op = "engine_render" /\ last.error = None)
       => DrawnInListOrder /\ LastDrawnOnTop

\* C20 as stated: of any two overlapping particles drawn by a render the one
\* created later is on top: a covered pixel shows the covering particle
\* created last.
C20_LaterCreatedOnTop ==
    (last.op = "engine_render" /\ last.error = None)
    => \A y \in DOMAIN last.composite : \A x \in DOMAIN last.composite[y] :
           LET over == {k \in 1..Len(last.drawn) : Covers(last.drawn[k], x, y)}
           IN  over # {}
               => \E k \in over :
                      /\ \A m \in over : last.drawn[m].id <= last.drawn[k].id
                      /\ last.composite[y][x] = last.drawn[k].color

\* a render drew a particle of each system over the same pixel, the impact
\* particle created before the trail particle, and the pixel shows the impact
C20_Witness ==
    /\ last.op = "engine_render"
    /\ last.error = None
    /\ \E k, m \in 1..Len(last.drawn) :
         /\ k < m
         /\ last.drawn[k].id > last.drawn[m].id
         /\ created[last.drawn[k].id].handle = 1
         /\ created[last.drawn[m].id].handle = 2
         /\ \E y \in DOMAIN last.composite : \E x \in DOMAIN last.composite[y] :
              /\ Covers(last.drawn[k], x, y)
              /\ Covers(last.drawn[m], x, y)
              /\ last.composite[y][x] = last.drawn[m].color
              /\ last.composite[y][x] # last.drawn[k].color

\* C21: the previous frame is None until the first render; a render that
\* returns stores the frame it returns, after all effects, and blends
\* motion_blur with the frame stored by the render before it; update,
\* add_effect, clear_effects, add_particle_system and clear_particles leave the
\* stored frame as it is.
C21_PrevFrameIsLastReturned ==
    /\ prev_frame = NoFrame
    /\ [][((last'.op = "engine_render" /\ last'.error = None)
            => (/\ prev_frame' = last'.frame
                /\ last'.prev = prev_frame
                /\ last'.frame = apply_effects(active_effects, 1, last'.composite,
                                               prev_frame, last'.rnds).frame))
           /\ (last'.op \in {"engine_update", "add_effect", "clear_effects",
                              "add_particle_system", "clear_particles"}
               => prev_frame' = prev_frame)]_vars

\* the second render, with motion_blur pending and after a clear_particles
\* that followed the first render: the frame blended in shows the particle
\* the first render drew and differs from what the first render drew on
C21_Witness ==
    /\ last.op = "engine_render"
    /\ last.error = None
    /\ calls.render = 2
    /\ particle_systems = <<>>
    /\ systems # <<>>
    /\ \E k \in 1..Len(active_effects) : active_effects[k].type = "motion_blur"
    /\ last.prev # NoFrame
    /\ last.prev # last.base
    /\ last.frame # last.composite
    /\ prev_frame = last.frame

\* C22: a particle that update(dt) emits is integrated and tested for expiry
\* by that same call.  If its original lifetime is above dt it is live after
\* the call with lifetime original - dt, at its spawn position plus dt times
\* the velocity it was created with; if not, it is not in the list after the
\* call.
C22_EmitIntegrateExpire ==
    [][(last'.op = "update" /\ last'.error = None /\ Len(created') = Len(created) + 1)
       => LET h == last'.handle
              dt == last'.dt
              id == Len(created')
              born == created'[id]
              at == {i \in 1..Len(systems'[h].particles) : systems'[h].particles[i].id = id}
          IN  IF born.lifetime > dt
              THEN /\ Cardinality(at) = 1
                   /\ \A i \in at :
                        LET p == systems'[h].particles[i]
                        IN  /\ p.lifetime = born.lifetime - dt
                            /\ p.max_lifetime = born.lifetime
                            /\ p.position[1] = born.position[1]
                                                + (p.velocity[1] - p.acceleration[1] * dt) * dt
                            /\ p.position[2] = born.position[2]
                                                + (p.velocity[2] - p.acceleration[2] * dt) * dt
              ELSE at = {}]_vars

\* two updates have emitted one particle each: the first, created with
\* lifetime 0, is gone; the second, emitted by the last call, is live with its
\* lifetime reduced by dt and has left its spawn position
C22_Witness ==
    /\ last.op = "update"
    /\ last.error = None
    /\ last.dt > 0
    /\ Len(created) = 2
    /\ stats[last.handle].auto_emitted = 2
    /\ systems[last.handle].time_since_emit = 0
    /\ created[1].lifetime <= 0
    /\ 1 \notin LiveIds(last.handle)
    /\ \E i \in 1..Len(Live(last.handle)) :
         /\ Live(last.handle)[i].id = 2
         /\ Live(last.handle)[i].lifetime = created[2].lifetime - last.dt
         /\ Live(last.handle)[i].position # created[2].position

\* the color of the template of system h, as _create_particle reads it
ConfiguredColor(h) == Get(systems[h].particle_config, "color", <<255, 255, 255, 255>>)

\* C23: every particle a render draws is drawn with the three color channels
\* of its template, whatever its remaining lifetime; only the alpha computed
\* for it is the template's alpha scaled by remaining / original lifetime, and
\* it is the template's alpha when the two lifetimes are equal.  The pixel at
\* the center of the disc drawn last has the template's color.
C23_OnlyAlphaFaded ==
    (last.op = "render" /\ last.error = None)
    => /\ \A k \in 1..Len(last.drawn) :
            LET d == last.drawn[k]
                cfg == ConfiguredColor(last.handle)
            IN  \E i \in 1..Len(Live(last.handle)) :
                    LET p == Live(last.handle)[i]
                    IN  /\ p.id = d.id
                        /\ d.color = <<cfg[1], cfg[2], cfg[3]>>
                        /\ d.alpha = IntDiv(cfg[4] * p.lifetime, p.max_lifetime)
                        /\ p.lifetime = p.max_lifetime => d.alpha = cfg[4]
       /\ last.drawn # <<>>
          => LET d == last.drawn[Len(last.drawn)]
                 cfg == ConfiguredColor(last.handle)
             IN  last.frame[d.pos[2]][d.pos[1]] = <<cfg[1], cfg[2], cfg[3]>>

\* a render drew a particle that has used up part of its lifetime: its alpha
\* is below the template's, its color is the template's and is not black
C23_Witness ==
    /\ last.op = "render"
    /\ last.error = None
    /\ \E k \in 1..Len(last.drawn) :
         \E i \in 1..Len(Live(last.handle)) :
             /\ Live(last.handle)[i].id = last.drawn[k].id
             /\ 0 < Live(last.handle)[i].lifetime
             /\ Live(last.handle)[i].lifetime < Live(last.handle)[i].max_lifetime
             /\ last.drawn[k].alpha < ConfiguredColor(last.handle)[4]
             /\ last.drawn[k].alpha > 0
             /\ last.drawn[k].color = SubSeq(ConfiguredColor(last.handle), 1, 3)
             /\ last.drawn[k].color # <<0, 0, 0>>

\* particle p is inside a frame of h rows and w columns
InBounds(p, h, w) ==
    /\ 0 <= p.position[1] /\ p.position[1] < w
    /\ 0 <= p.position[2] /\ p.position[2] < h

\* C24: a render of a system onto a black frame draws exactly the particles
\* whose position is inside the frame: a particle outside is not drawn, no
\* pixel is changed but by the discs of the particles inside, and the call
\* raises nothing on account of a position (the only error render raises is
\* the division by an original lifetime of 0).
C24_OutOfBoundsSkipped ==
    last.op = "render"
    => LET ps == Live(last.handle)
       IN  /\ last.error # None => \E i \in 1..Len(ps) : ps[i].max_lifetime = 0
           /\ last.error = None
              => /\ \A i \in 1..Len(ps) :
                      InBounds(ps[i], Height, Width)
                      <=> \E k \in 1..Len(last.drawn) : last.drawn[k].id = ps[i].id
                 /\ \A y \in DOMAIN last.frame : \A x \in DOMAIN last.frame[y] :
                      LET over == {k \in 1..Len(last.drawn) : Covers(last.drawn[k], x, y)}
                      IN  last.frame[y][x] =
                              IF over = {} THEN <<0, 0, 0>>
                              ELSE last.drawn[CHOOSE k \in over : \A m \in over : m <= k].color

\* a render with a particle above the frame and a particle inside: the one
\* inside is drawn, and a pixel the disc of the other would cover is black
C24_Witness ==
    /\ last.op = "render"
    /\ last.error = None
    /\ last.drawn # <<>>
    /\ \E i \in 1..Len(Live(last.handle)) :
         LET p == Live(last.handle)[i]
         IN  /\ ~InBounds(p, Height, Width)
             /\ \A k \in 1..Len(last.drawn) : last.drawn[k].id # p.id
             /\ \E y \in DOMAIN last.frame : \E x \in DOMAIN last.frame[y] :
                  /\ Covers([pos |-> p.position, radius |-> p.size], x, y)
                  /\ last.frame[y][x] = <<0, 0, 0>>

\* the frame after the channel shift of apply_glitch alone
ChannelShifted(frame, intensity) ==
    LET shift == IntDiv(intensity * 10, 100)
    IN  [y \in DOMAIN frame |->
            [x \in DOMAIN frame[y] |->
                <<frame[y][Mod(x - shift, Cols(frame))][1],
                  frame[y][x][2],
                  frame[y][Mod(x + shift, Cols(frame))][3]>>]]

\* C25: apply_glitch returns for a frame of any height; when the band branch
\* is taken the band drawn has 0 <= y, a height in 5..50 and y + height at
\* most the number of rows, its rows are the channel-shifted rows rolled by
\* an offset in -20..20 with wrap-around, and the rows outside it are the
\* channel-shifted rows.
C25_GlitchBandInside ==
    (last.op = "apply_effect" /\ last.request.type = "glitch")
    => /\ last.error = None
       /\ LET rnd == last.rnds[1]
              h == Rows(last.base)
              w == Cols(last.base)
              shifted == ChannelShifted(last.base, Get(last.request.params, "intensity", 50))
          IN  IF rnd.band = "roll"
              THEN /\ 0 <= rnd.y
                   /\ rnd.height \in 5..50
                   /\ rnd.y + rnd.height <= h
                   /\ rnd.shift_amount \in (-20)..20
                   /\ \A y \in DOMAIN last.frame : \A x \in DOMAIN last.frame[y] :
                        last.frame[y][x] =
                            IF rnd.y <= y /\ y < rnd.y + rnd.height
                            THEN shifted[y][Mod(x - rnd.shift_amount, w)]
                            ELSE shifted[y][x]
              ELSE last.frame = shifted

\* centers a caller can pass for frame: two corners, the middle (render's
\* default) and two points outside
Centers(frame) ==
    {<<0, 0>>, <<Cols(frame) - 1, Rows(frame) - 1>>,
     <<Cols(frame) \div 2, Rows(frame) \div 2>>,
     <<-1, -1>>, <<Cols(frame), Rows(frame)>>}

\* frame after n of the blends of apply_radial_blur, counted from the first
BlendedTimes(frame, strength, n) ==
    LET blurred == GaussianBlur(frame, 15)
        R[k \in 0..n] ==
            IF k = 0 THEN frame
            ELSE AddWeighted(R[k - 1], strength - k, blurred, k, strength)
    IN  R[n]

TotalFrames == 13

\* motion blur is enqueued on frames with frame_num > 60 (of 600); scaled
MotionBlurFrom == 2

\* the shake intensity of the script, 3 pixels of 1920; scaled to the frame
ShakePixels == 0

\* dust_config and impact_config, scaled; of the random half-ranges the
\* lifetime's of the impact cloud is kept
DriverDustConfig ==
    [position |-> <<1, 0>>,
     rate |-> Rate(1, 1),
     particle |-> [velocity |-> <<-1, 0>>,
                   acceleration |-> <<0, 1>>,
                   lifetime |-> 2,
                   color |-> <<180, 160, 140, 120>>,
                   size |-> 1]]

DriverImpactConfig ==
    [position |-> <<0, 0>>,
     rate |-> Rate(1, 2),
     particle |-> [velocity |-> <<-1, -1>>,
                   acceleration |-> <<0, 1>>,
                   lifetime |-> 2,
                   lifetime_random |-> 1,
                   color |-> <<200, 180, 150, 150>>,
                   size |-> 0]]

\* lion_x and lion_y of frame n: the lion crosses the frame along its last row
LionX(n) == n \div 3
LionY == Height - 1

\* frame_num / total_frames > tenths / 10
ProgressAbove(n, tenths) == 10 * n > tenths * TotalFrames

\* if frame_num % 3 == 0: self.vfx.clear_effects()
ClearsAfter_every_fourth(n) == n % 4 = 0

ClearsAfter(n) == n % 3 = 0

\* the requests frame n enqueues, in the order of the add_effect calls; shake
\* is what random.random() < 0.3 came out as, where it is evaluated
Enqueued(n, shake) ==
    (IF n > MotionBlurFrom /\ n % 3 = 0
     THEN <<Effect("motion_blur", [strength |-> 40])>> ELSE <<>>)
    \o (IF ProgressAbove(n, 6) /\ shake
        THEN <<Effect("shake", [intensity |-> ShakePixels])>> ELSE <<>>)
    \o (IF ProgressAbove(n, 7)
        THEN <<Effect("radial_blur", [center |-> <<LionX(n), LionY>>, strength |-> 30])>>
        ELSE <<>>)

\* LionHuntScene.__init__
InitDriver ==
    /\ systems = <<ParticleSystem(DriverDustConfig), ParticleSystem(DriverImpactConfig)>>
    /\ particle_systems = <<1, 2>>
    /\ active_effects = <<>>
    /\ prev_frame = NoFrame
    /\ calls = NoCalls
    /\ created = <<>>
    /\ stats = <<NoStats, NoStats>>
    /\ last = NoCall

\* one iteration of the loop of render_scene; an exception ends the script
DriverFrame ==
    LET n == calls.render
        moved == [systems EXCEPT ![1].emitter_pos = <<LionX(n), LionY>>,
                                 ![2].emitter_pos = <<LionX(n) - 1, LionY>>]
    IN  /\ n < TotalFrames
        /\ last.error = None
        /\ \E dt \in FrameDts :
           \E urnds \in SystemDrawSeqs(moved, particle_systems, dt) :
           \E st \in {VFXEngine_update([systems |-> moved, created |-> created,
                                        stats |-> stats, error |-> None],
                                       particle_systems, dt, urnds)} :
           \E shake \in IF ProgressAbove(n, 6) THEN BOOLEAN ELSE {FALSE} :
           \E pending \in {IF st.error = None THEN active_effects \o Enqueued(n, shake)
                            ELSE active_effects} :
           \E rnds \in IF st.error = None
                        THEN EffectDrawSeqs(pending, Height) ELSE {<<>>} :
           \E r \in {IF st.error = None
                      THEN VFXEngine_render(BaseFrame(Height, Width), st.systems,
                                            particle_systems, pending, prev_frame, rnds)
                      ELSE [frame |-> NoFrame, composite |-> NoFrame, drawn |-> <<>>,
                            error |-> st.error, buffer |-> <<>>, base_after |-> NoFrame]} :
               /\ systems' = st.systems
               /\ created' = st.created
               /\ stats' = st.stats
               /\ prev_frame' = IF r.error = None THEN r.frame ELSE prev_frame
               /\ active_effects' = IF r.error = None /\ ClearsAfter(n) THEN <<>> ELSE pending
               /\ calls' = [calls EXCEPT !.render = @ + 1,
                                         !.add_effect = @ + Len(pending) - Len(active_effects)]
               /\ last' = [NoCall EXCEPT
                             !.op = "frame", !.count = n, !.dt = dt, !.error = r.error,
                             !.frame = r.frame, !.drawn = r.drawn,
                             !.base = BaseFrame(Height, Width), !.composite = r.composite,
                             !.prev = prev_frame, !.rnds = rnds, !.buffer = r.buffer,
                             !.base_after = r.base_after,
                             !.pending = pending,
                             !.enqueued_at =
                                 (IF n > 0 /\ (n - 1) % 3 # 0 THEN last.enqueued_at ELSE <<>>)
                                 \o [k \in 1..(Len(pending) - Len(active_effects)) |-> n]]
        /\ UNCHANGED particle_systems

NextDriver == DriverFrame

SpecDriver == InitDriver /\ [][NextDriver]_vars

NextAccumulator ==
    \/ \E h \in Handles, count \in Counts : Emit(h, count)
    \/ \E h \in Handles, dt \in Dts : Update(h, dt)
    \/ \E h \in Handles : Render(h)
    \/ \E h \in Handles, pos \in EmitterPositions : SetEmitterPos(h, pos)

SpecAccumulator == Init /\ [][NextAccumulator]_vars

\* the update call of this step created a particle
EmittedNow == Len(created') > Len(created)

\* the accumulator of system h lies in [0, 1 / rate)
AccumulatorInRange(sys) ==
    /\ 0 <= sys.time_since_emit
    /\ sys.time_since_emit * sys.emission_rate.num < sys.emission_rate.den

\* C28: for a system with rate > 0, after every update(dt) with dt >= 0 the
\* accumulator lies in [0, 1 / rate) and is 0 after a call that emitted; after
\* a call with dt > 0 it is 0 only if the call emitted; emit, render and
\* assignments to emitter_pos leave it as it was.
C28_AccumulatorInvariant ==
    [][LET h == last'.handle
       IN  /\ (last'.op = "update" /\ systems[h].emission_rate.num > 0)
                => (/\ last'.error = None
                    /\ AccumulatorInRange(systems'[h])
                    /\ EmittedNow => systems'[h].time_since_emit = 0
                    /\ (last'.dt > 0 /\ systems'[h].time_since_emit = 0) => EmittedNow)
           /\ (last'.op \in {"emit", "render", "set_emitter_pos"})
                => systems'[h].time_since_emit = systems[h].time_since_emit]_vars

\* C28 as stated: after every update(dt) with dt >= 0 the accumulator is 0
\* exactly when the call emitted
C28_ZeroExactlyAfterEmission ==
    [][(last'.op = "update" /\ systems[last'.handle].emission_rate.num > 0)
         => (systems'[last'.handle].time_since_emit = 0 <=> EmittedNow)]_vars

\* a system with a non-zero accumulator below 1 / rate had a particle
\* emitted by hand, was rendered or had its emitter moved
C28_Witness ==
    /\ last.op \in {"emit", "render", "set_emitter_pos"}
    /\ (last.op = "emit" => last.count > 0)
    /\ systems[last.handle].emission_rate.num > 0
    /\ systems[last.handle].time_since_emit > 0
    /\ AccumulatorInRange(systems[last.handle])
    /\ stats[last.handle].auto_emitted > 0

(***************************************************************************)
(* A ParticleSystem driven only by update(dt) with one dt > 0 for the      *)
(* whole run, as a fixed-rate frame loop does.                             *)
(***************************************************************************)
SteadyDts == 1..2

\* the fixed dt of the run: the dt of the first call is the dt of all
SteadyUpdate(dt) ==
    /\ last.op = "init" \/ last.dt = dt
    /\ last.error = None
    /\ stats[1].total_time < MaxSteadySteps * dt
    /\ \E rnd \in UpdateDraws(systems[1], dt) :
         \E st \in {StepUpdate(Now, 1, dt, rnd)} :
             /\ systems' = st.systems
             /\ created' = st.created
             /\ stats' = st.stats
             /\ last' = [NoCall EXCEPT !.op = "update", !.handle = 1, !.dt = dt,
                                       !.error = st.error]
    /\ UNCHANGED engine

NextSteady == \E dt \in SteadyDts : SteadyUpdate(dt)

SpecSteady == Init /\ [][NextSteady]_vars

\* the largest lifetime _create_particle gives a particle of the template
MaxLifetime(sys) ==
    Get(sys.particle_config, "lifetime", 2) + Get(sys.particle_config, "lifetime_random", 0)

\* math.ceil(n / d) for d > 0
Ceil(n, d) == (n + d - 1) \div d

\* C29: when a system is driven only by update(dt) with a fixed dt > 0, the
\* number of live particles after any update call is at most
\* ceil(Lmax / dt), Lmax being the largest lifetime of the template.
C29_BoundedLiveSet ==
    (last.op = "update" /\ last.error = None)
        => Len(Live(1)) <= Ceil(MaxLifetime(systems[1]), last.dt)

\* after the fifth update with dt = 1 of a template with Lmax = 3, five
\* particles were emitted, three of them have expired and two are live
C29_Witness ==
    /\ last.op = "update"
    /\ last.error = None
    /\ last.dt = 1
    /\ MaxLifetime(systems[1]) = 3
    /\ stats[1].total_time = 5
    /\ stats[1].auto_emitted = 5
    /\ Len(Live(1)) = 2

====
